---- MODULE Spec2Model ----
(***************************************************************************)
(* Title normalisation, similarity scoring and playlist matching of the    *)
(* youtube-to-local scripts.                                               *)
(*                                                                         *)
(* A text is a sequence of characters; a character is a one-character      *)
(* string.  Characters outside ASCII are written by their code point       *)
(* ("U+00E9" is e with acute accent).                                      *)
(***************************************************************************)
EXTENDS Naturals, Integers, Sequences, FiniteSets, TLC

VARIABLES
    \* a call of a normaliser
    fn,          \* normaliser under test: "clean" or "normalize"
    text,        \* its argument
    key,         \* its result
    npc,         \* "input" before the call, "done" after it
    \* compare-songs.py, find-removed-songs.py
    youtube_playlist,       \* the sorted lines of the playlist file
    downloaded_music_list,  \* the sorted lines of the downloads file, tag removed
    dictionary,             \* original -> <<score, modified>>
    oi,                     \* index of original in youtube_playlist
    mi,                     \* index of modified in downloaded_music_list
    new_similarity,         \* the last result of findsimilarity
    spc,                    \* where the script is
    \* youtube_to_m3u_alternative.py, youtube_to_m3u_HighChance_LowPrecision.py,
    \* find_missing_songs.py
    script,                 \* the script that runs
    m3u_lines,              \* the lines of the local library file
    m3u_open,               \* what open(m3u_file_path) gives: "ok" or the exception
    playlist_data,          \* the records the fetch returned
    li,                     \* index of line in m3u_lines
    local_files_map,        \* key -> path, as the pairs in insertion order
    local_titles,           \* the set of keys of the two missing-songs scripts
    vi,                     \* index of video in playlist_data
    normalized_yt_title,    \* the key of the last title
    matched_local_path,     \* the path matched to the last title, or NoPath
    best_match_score,       \* <<numerator, denominator>> of the best score
    overlap_score,          \* <<numerator, denominator>> of the last score
    found_lenient,          \* the lenient check of the last title
    m3u_content,            \* the lines of the playlist to write
    matched_count,          \* matched_songs_count, matched_count
    missing_songs,          \* missing_songs, missing_songs_raw
    files,                  \* file name -> lines written
    mpc,                    \* where the script is
    \* get_youtube_playlist_info, get_youtube_playlist_titles
    process,                \* what subprocess.run gave: raised, stdout
    fl,                     \* index of line in the lines of the output
    videos_info,            \* videos_info, youtube_titles
    returned,               \* the value the function returned
    fpc                     \* where the function is

normVars == <<fn, text, key, npc>>
scanVars == <<youtube_playlist, downloaded_music_list, dictionary, oi, mi,
              new_similarity, spc>>
fetchVars == <<process, fl, videos_info, returned, fpc>>
\* what the parse and match steps of a script receive and never change
inputVars == <<script, m3u_lines, m3u_open, playlist_data, fetchVars>>
matchVars == <<inputVars, li, local_files_map, local_titles, vi,
               normalized_yt_title, matched_local_path, best_match_score,
               overlap_score, found_lenient, m3u_content, matched_count,
               missing_songs, files, mpc>>
vars == <<normVars, scanVars, matchVars>>

\* no normaliser call in this run
NormIdle == fn = "clean" /\ text = <<>> /\ key = <<>> /\ npc = "idle"

\* no best-of-all scan in this run
ScanIdle ==
    /\ youtube_playlist = <<>> /\ downloaded_music_list = <<>>
    /\ dictionary = <<>> /\ oi = 0 /\ mi = 0
    /\ new_similarity = <<>> /\ spc = "idle"

\* no fetch in this run
FetchIdle ==
    /\ process = [raised |-> "ok", stdout |-> <<>>] /\ fl = 0
    /\ videos_info = <<>> /\ returned = <<>> /\ fpc = "idle"

\* no matcher script in this run
MatchIdle ==
    /\ FetchIdle
    /\ script = "idle" /\ m3u_lines = <<>> /\ m3u_open = "ok"
    /\ playlist_data = <<>>
    /\ li = 0 /\ local_files_map = <<>> /\ local_titles = {} /\ vi = 0
    /\ normalized_yt_title = <<>> /\ matched_local_path = <<"None">>
    /\ best_match_score = <<0, 1>> /\ overlap_score = <<0, 1>>
    /\ found_lenient = FALSE /\ m3u_content = <<>> /\ matched_count = 0
    /\ missing_songs = <<>> /\ files = <<>> /\ mpc = "idle"

---------------------------------------------------------------------------
(* Characters *)

EAcute  == "U+00E9"   \* e with acute accent, a letter
EmDash  == "U+2014"   \* em dash, punctuation outside ASCII
RegSign == "U+00AE"   \* registered sign
ACircLo == "U+00E2"   \* a with circumflex (lower case)
ACircUp == "U+00C2"   \* A with circumflex (upper case)

LowerLetters ==
    {"a","b","c","d","e","f","g","h","i","j","k","l","m",
     "n","o","p","q","r","s","t","u","v","w","x","y","z"}

Digits == {"0","1","2","3","4","5","6","7","8","9"}

\* str.lower() on one character.
LowerMap ==
    [c \in {"A","B","C","D","E","F","G","H","I","J","K","L","M",
            "N","O","P","Q","R","S","T","U","V","W","X","Y","Z", ACircUp} |->
        CASE c = "A" -> "a" [] c = "B" -> "b" [] c = "C" -> "c" [] c = "D" -> "d"
          [] c = "E" -> "e" [] c = "F" -> "f" [] c = "G" -> "g" [] c = "H" -> "h"
          [] c = "I" -> "i" [] c = "J" -> "j" [] c = "K" -> "k" [] c = "L" -> "l"
          [] c = "M" -> "m" [] c = "N" -> "n" [] c = "O" -> "o" [] c = "P" -> "p"
          [] c = "Q" -> "q" [] c = "R" -> "r" [] c = "S" -> "s" [] c = "T" -> "t"
          [] c = "U" -> "u" [] c = "V" -> "v" [] c = "W" -> "w" [] c = "X" -> "x"
          [] c = "Y" -> "y" [] c = "Z" -> "z" [] c = ACircUp -> ACircLo]

UpperLetters == DOMAIN LowerMap

LowerChar(c) == IF c \in UpperLetters THEN LowerMap[c] ELSE c

\* str.lower()
Lower(s) == [i \in 1..Len(s) |-> LowerChar(s[i])]

\* the regex class \s (and what str.strip() strips)
IsSpace(c) == c \in {" ", "\t"}

---------------------------------------------------------------------------
(* Regular-expression steps.  A matcher takes a text and a start index    *)
(* and returns the index just after the match, or 0 when there is none.   *)
(* Every pattern of the scripts is compiled with re.IGNORECASE: a literal *)
(* is compared with the lower-cased character.                            *)

RECURSIVE SkipSpaces(_, _)
\* \s* from index i: the index of the first character that is not a space.
SkipSpaces(s, i) ==
    IF i <= Len(s) /\ IsSpace(s[i]) THEN SkipSpaces(s, i + 1) ELSE i

\* \s+ from index i
Spaces1(s, i) ==
    IF i >= 1 /\ i <= Len(s) /\ IsSpace(s[i]) THEN SkipSpaces(s, i) ELSE 0

RECURSIVE SkipDigits(_, _)
SkipDigits(s, i) ==
    IF i <= Len(s) /\ s[i] \in Digits THEN SkipDigits(s, i + 1) ELSE i

\* \d+ from index i
Digits1(s, i) ==
    IF i >= 1 /\ i <= Len(s) /\ s[i] \in Digits THEN SkipDigits(s, i) ELSE 0

\* the literal w (lower case) at index i
Lit(s, i, w) ==
    IF i >= 1 /\ i + Len(w) - 1 <= Len(s)
          /\ \A k \in 1..Len(w) : LowerChar(s[i + k - 1]) = w[k]
    THEN i + Len(w)
    ELSE 0

\* one of the characters of set cs at index i
OneOf(s, i, cs) ==
    IF i >= 1 /\ i <= Len(s) /\ s[i] \in cs THEN i + 1 ELSE 0

\* the largest index of a set of match ends (0: no alternative matched)
Longest(ends) == CHOOSE e \in ends \cup {0} : \A f \in ends : f <= e

\* \s* after a match that ended at e (0 stays 0)
Spaces0(s, e) == IF e = 0 THEN 0 ELSE SkipSpaces(s, e)

\* (\)|\]) after each of the match ends: the ends of the closed alternatives
Closed(s, ends) == {OneOf(s, e, {")", "]"}) : e \in ends \ {0}} \ {0}

\* music\s+video
MusicVideo(s, k) == Lit(s, Spaces1(s, Lit(s, k, <<"m","u","s","i","c">>)), <<"v","i","d","e","o">>)

\* from\s+f1\s*<sign>\s*the\s+movie
FromF1(s, k) == Lit(s, Spaces1(s, Lit(s, k, <<"f","r","o","m">>)), <<"f","1">>)

FromF1TheMovie(s, k, sign) ==
    Lit(s, Spaces1(s, Lit(s, Spaces0(s, Lit(s, Spaces0(s, FromF1(s, k)), sign)),
                          <<"t","h","e">>)),
        <<"m","o","v","i","e">>)

\* <codec>_\d+k
BitrateTag(s, k, codec) == Lit(s, Digits1(s, Lit(s, k, codec \o <<"_">>)), <<"k">>)

\* video|lyrics?|visualizer|music\s+video|hd|hq|from\s+f1\s*<sign>\s*the\s+movie
VideoWords(s, k, sign) ==
    { Lit(s, k, <<"v","i","d","e","o">>),
      Lit(s, k, <<"l","y","r","i","c">>),
      Lit(s, k, <<"l","y","r","i","c","s">>),
      Lit(s, k, <<"v","i","s","u","a","l","i","z","e","r">>),
      MusicVideo(s, k),
      Lit(s, k, <<"h","d">>),
      Lit(s, k, <<"h","q">>),
      FromF1TheMovie(s, k, sign) }

\* audio|video|lyrics?|visualizer|music\s+video|hd|hq|from\s+f1\s*<sign>\s*the\s+movie
DescriptiveWords(s, k, sign) ==
    {Lit(s, k, <<"a","u","d","i","o">>)} \cup VideoWords(s, k, sign)

\* mp3_\d+k|m4a_\d+k|mp4_\d+k
BitrateWords(s, k) ==
    { BitrateTag(s, k, <<"m","p","3">>),
      BitrateTag(s, k, <<"m","4","a">>),
      BitrateTag(s, k, <<"m","p","4">>) }

\* \s*(\(|\[)(official\s+)?(<words>)(\)|\])\s*  where Words(s, k) is the set
\* of ends of the vocabulary's alternatives at k.  The optional group is
\* tried first; no word of a vocabulary starts with "official".
\* the registered sign as a vocabulary's pattern spells it:
\* find_missing_songs.py has the two characters U+00C2 U+00AE
Sign(voc) == IF voc = "clean" THEN <<ACircLo, RegSign>> ELSE <<RegSign>>

\* the ends of the alternatives of a vocabulary at index k:
\*   "clean"      clean_title_for_comparison
\*   "normalize"  normalize_text_for_comparison (with the bitrate tags)
\*   "display"    clean_display_title (without audio)
Words(voc, s, k) ==
    VideoWords(s, k, Sign(voc))
      \cup (IF voc = "display" THEN {} ELSE {Lit(s, k, <<"a","u","d","i","o">>)})
      \cup (IF voc = "normalize" THEN BitrateWords(s, k) ELSE {})

\* (official\s+)?(<vocabulary>)(\)|\]) from index k: the word starts at k, or
\* after "official" and spaces; no word of a vocabulary starts with "official",
\* so at most one of the two starts gives a match
OfficialWord(voc, s, k) ==
    Longest(Closed(s,
        UNION {Words(voc, s, st) :
                 st \in {k, Spaces1(s, Lit(s, k, <<"o","f","f","i","c","i","a","l">>))} \ {0}}))

\* \s*(\(|\[)(official\s+)?(<vocabulary>)(\)|\])\s*
NoisePhrase(voc, s, i) ==
    Spaces0(s, OfficialWord(voc, s, OneOf(s, SkipSpaces(s, i), {"(", "["})))

\* the punctuation class of normalize_text_for_comparison; the four curly
\* quotes and the backtick are written by code point
PunctuationChars ==
    {".", ",", "!", "?", ";", ":", "'", "\"", "U+201C", "U+201D", "U+2018", "U+2019",
     "U+0060", "~", "@", "#", "$", "%", "^", "&", "*", "(", ")", "_", "+", "=",
     "{", "}", "[", "]", "\\", "|", "<", ">", "/"}

\* the class of sanitize_filename_for_path
PathInvalidChars == {"\\", "/", ":", "*", "?", "\"", "<", ">", "|", "'", ",", "&"}

\* the character classes of the patterns and of str.strip
InClass(cls, c) ==
    CASE cls = "space"        -> IsSpace(c)                      \* \s, strip()
      [] cls = "space_hyphen" -> IsSpace(c) \/ c = "-"           \* [\s-]
      [] cls = "not_key"      ->                                 \* [^a-z0-9\s-]
           ~(c \in LowerLetters \/ c \in Digits \/ IsSpace(c) \/ c = "-")
      [] cls = "punctuation"  -> c \in PunctuationChars
      [] cls = "blank_hyphen" -> c \in {" ", "-"}                \* strip(" -")
      [] cls = "underscore"   -> c = "_"                         \* _+
      [] cls = "path_invalid" -> c \in PathInvalidChars         \* [\\/:*?"<>|\',&]
      [] cls = "blank_underscore" -> c \in {" ", "_"}           \* strip(" _")
      [] cls = "blank_hyphen_underscore" -> c \in {" ", "-", "_"}  \* strip(" -_")

RECURSIVE SkipClass(_, _, _)
SkipClass(cls, s, j) ==
    IF j <= Len(s) /\ InClass(cls, s[j]) THEN SkipClass(cls, s, j + 1) ELSE j

\* a run of characters of a class: [\s-]+ , \s+ , _+
RunOf(cls, s, i) ==
    IF i <= Len(s) /\ InClass(cls, s[i]) THEN SkipClass(cls, s, i) ELSE 0

\* \s*\(<codec>_\d+k\)\s*
BitratePhrase(codec, s, i) ==
    Spaces0(s, Lit(s, BitrateTag(s, Lit(s, SkipSpaces(s, i), <<"(">>), codec), <<")">>))

\* the match at index i (0: none) of a pattern <<kind, argument>>:
\*   <<"noise", voc>>      the noise phrases of a vocabulary
\*   <<"bitrate", codec>>  a bitrate tag in parentheses
\*   <<"run", cls>>        a run of characters of a class
MatchEnd(pat, s, i) ==
    CASE pat[1] = "noise"   -> NoisePhrase(pat[2], s, i)
      [] pat[1] = "bitrate" -> BitratePhrase(pat[2], s, i)
      [] pat[1] = "run"     -> RunOf(pat[2], s, i)

RECURSIVE SubFrom(_, _, _, _)
\* a match found at index i and ending before e is replaced, a character no
\* match starts at (e = 0) is copied; the scan goes on after it
SubStep(pat, repl, s, i, e) ==
    IF e # 0 THEN repl \o SubFrom(pat, repl, s, e)
             ELSE <<s[i]>> \o SubFrom(pat, repl, s, i + 1)

\* re.sub from index i on
SubFrom(pat, repl, s, i) ==
    IF i > Len(s) THEN <<>> ELSE SubStep(pat, repl, s, i, MatchEnd(pat, s, i))

\* re.sub(pat, repl, s)
Sub(pat, repl, s) == SubFrom(pat, repl, s, 1)

\* re.sub of a one-character class: each character of the class becomes repl
SubChars(cls, repl, s) ==
    [i \in 1..Len(s) |-> IF InClass(cls, s[i]) THEN repl ELSE s[i]]

\* the least and the greatest element of a non-empty set of numbers
Min(S) == CHOOSE i \in S : \A j \in S : i <= j
Max(S) == CHOOSE i \in S : \A j \in S : j <= i

\* the characters of s from the first to the last index of set keep
Between(s, keep) == IF keep = {} THEN <<>> ELSE SubSeq(s, Min(keep), Max(keep))

\* str.strip(chars)
StripChars(cls, s) == Between(s, {i \in 1..Len(s) : ~InClass(cls, s[i])})

\* s ends with suffix w (compared in lower case)
EndsWith(s, w) == Len(s) >= Len(w) /\ Lit(s, Len(s) - Len(w) + 1, w) # 0

\* RemoveExtension with the dot of the pattern left unescaped: any character
\* before the extension's letters is taken for the dot
RemoveExtensionAnyDot(s) ==
    IF Len(s) >= 4 /\ (EndsWith(s, <<"m","p","3">>) \/ EndsWith(s, <<"m","4","a">>))
    THEN SubSeq(s, 1, Len(s) - 4)
    ELSE IF Len(s) >= 5 /\ EndsWith(s, <<"o","p","u","s">>)
    THEN SubSeq(s, 1, Len(s) - 5)
    ELSE s

\* re.sub(r"\.(mp3|m4a|opus)$", "", s)
RemoveExtension(s) ==
    IF EndsWith(s, <<".","m","p","3">>) \/ EndsWith(s, <<".","m","4","a">>)
    THEN SubSeq(s, 1, Len(s) - 4)
    ELSE IF EndsWith(s, <<".","o","p","u","s">>)
    THEN SubSeq(s, 1, Len(s) - 5)
    ELSE s

---------------------------------------------------------------------------
(* The normalisers *)

\* the steps before the bitrate tags only: the tags are left in
KeepsBitrate(title_string) == RemoveExtension(Lower(title_string))

\* find_missing_songs.py, clean_title_for_comparison, steps 1 and 2: the
\* lower-cased title without its extension and without (mp3_..k), (m4a_..k),
\* (mp4_..k)
WithoutBitrate(title_string) ==
    Sub(<<"bitrate", <<"m","p","4">>>>, <<>>,
        Sub(<<"bitrate", <<"m","4","a">>>>, <<>>,
            Sub(<<"bitrate", <<"m","p","3">>>>, <<>>,
                RemoveExtension(Lower(title_string)))))

\* steps 3 and 4: a noise phrase becomes a space, and so does every character
\* outside [a-z0-9\s-]
OnlyKeyChars(title_string) ==
    SubChars("not_key", " ",
        Sub(<<"noise", "clean">>, <<" ">>, WithoutBitrate(title_string)))

\* find_missing_songs.py: clean_title_for_comparison (steps 5 and 6: runs of
\* spaces and hyphens collapse to one space, the ends are stripped)
clean_title_for_comparison(title_string) ==
    StripChars("space",
        Sub(<<"run", "space_hyphen">>, <<" ">>, OnlyKeyChars(title_string)))

\* normalize_text_for_comparison up to the punctuation step: the lower-cased
\* text without noise phrases (deleted, not replaced), its punctuation
\* replaced by spaces
WithoutPunctuation(txt) ==
    SubChars("punctuation", " ", Sub(<<"noise", "normalize">>, <<>>, Lower(txt)))

\* youtube_to_m3u_alternative.py, youtube_to_m3u_HighChance_LowPrecision.py:
\* normalize_text_for_comparison (the same text in both files)
normalize_text_for_comparison(txt) ==
    StripChars("blank_hyphen",
        Sub(<<"run", "space">>, <<" ">>, WithoutPunctuation(txt)))

---------------------------------------------------------------------------
(* Normaliser runs: a title or a file name is put together from pieces    *)
(* and one of the two normalisers is called on it.                         *)

MaxPieces == 3

SongTitle     == <<"S","o","n","g"," ","T","i","t","l","e">>
OfficialAudio == <<" ","(","O","f","f","i","c","i","a","l"," ","A","u","d","i","o",")">>
OfficialVideo == <<"(","O","f","f","i","c","i","a","l"," ","V","i","d","e","o",")">>
Mp3Tag        == <<"(","M","P","3","_","1","6","0","K",")">>
Mp3Ext        == <<".","m","p","3">>

Pieces ==
    { <<"a">>, <<"B">>, <<"7">>, <<" ">>, <<"-">>, <<"_">>, <<EAcute>>, <<EmDash>>,
      SongTitle, OfficialAudio, OfficialVideo, Mp3Tag, Mp3Ext }

RECURSIVE Concat(_)
\* the pieces of a sequence, joined
Concat(ps) == IF ps = <<>> THEN <<>> ELSE Head(ps) \o Concat(Tail(ps))

Texts == {Concat(ps) : ps \in UNION {[1..n -> Pieces] : n \in 0..MaxPieces}}

Normalizers == {"clean", "normalize"}

InitNorm ==
    /\ fn \in Normalizers
    /\ text \in Texts
    /\ key = <<>>
    /\ npc = "input"
    /\ ScanIdle
    /\ MatchIdle

CleanTitle ==
    /\ npc = "input"
    /\ fn = "clean"
    /\ key' = clean_title_for_comparison(text)
    /\ npc' = "done"
    /\ UNCHANGED <<fn, text, scanVars, matchVars>>

NormalizeText ==
    /\ npc = "input"
    /\ fn = "normalize"
    /\ key' = normalize_text_for_comparison(text)
    /\ npc' = "done"
    /\ UNCHANGED <<fn, text, scanVars, matchVars>>

NextNorm == CleanTitle \/ NormalizeText

SpecNorm == InitNorm /\ [][NextNorm]_vars

---------------------------------------------------------------------------
(* compare-songs.py and find-removed-songs.py: the positional score and   *)
(* the best-of-all scan.  Both files hold the same findsimilarity and the *)
(* same loop.                                                              *)

\* the fill value of itertools.zip_longest
None == "None"

\* the i-th element of zip_longest's pairs for s
Padded(s, i) == IF i <= Len(s) THEN s[i] ELSE None

RECURSIVE IdenticalUpTo(_, _, _)
\* the pairs (char1, char2) among the first n of zip_longest(original, modified)
\* with char1 == char2
IdenticalUpTo(original, modified, n) ==
    IF n = 0 THEN 0
    ELSE IdenticalUpTo(original, modified, n - 1)
           + (IF Padded(original, n) = Padded(modified, n) THEN 1 ELSE 0)

\* identical, after the loop over zip_longest(original, modified)
Identical(original, modified) ==
    IdenticalUpTo(original, modified,
                  IF Len(original) >= Len(modified) THEN Len(original) ELSE Len(modified))

\* round(n / d): the nearest integer, a tie to the even one (the float
\* (identical / len) * 100 is that quotient exactly enough for len < 40)
RoundOf(q, r, d) ==
    IF 2 * r < d THEN q
    ELSE IF 2 * r > d THEN q + 1
    ELSE IF q % 2 = 0 THEN q ELSE q + 1

Round(n, d) == RoundOf(n \div d, n % d, d)

\* what a division by zero raises
ZeroDivisionError == "ZeroDivisionError"

\* findsimilarity with the length of modified as the denominator
findsimilarityOfModified(original, modified) ==
    IF Len(modified) = 0 THEN ZeroDivisionError
    ELSE <<Round(100 * Identical(original, modified), Len(modified)), modified>>

\* findsimilarity: [round(percent), modified], or the exception it raises
findsimilarity(original, modified) ==
    IF Len(original) = 0 THEN ZeroDivisionError
    ELSE <<Round(100 * Identical(original, modified), Len(original)), modified>>

MaxPlaylist == 1
MaxDownloads == 2

\* the lines the two files are made of, in sorted order
Songs ==
    << <<>>,
       <<"a">>,
       <<"a","a","a">>,
       <<"a","a","a","a","a","a","a","a">>,
       <<"a","b">>,
       <<"a","b","b">>,
       <<"b">> >>

\* the sorted lists of at most n songs
SortedLists(n) ==
    UNION { { [i \in 1..m |-> Songs[ix[i]]] :
                ix \in {f \in [1..m -> 1..Len(Songs)] :
                          \A i \in 1..(m - 1) : f[i] <= f[i + 1]} } :
            m \in 0..n }

\* the state after both files are read and sorted
InitScan ==
    /\ youtube_playlist \in SortedLists(MaxPlaylist)
    /\ downloaded_music_list \in SortedLists(MaxDownloads)
    /\ dictionary = <<>>
    /\ oi = 1
    /\ mi = 0
    /\ new_similarity = <<>>
    /\ spc = "for_original"
    /\ NormIdle
    /\ MatchIdle

original == youtube_playlist[oi]
modified == downloaded_music_list[mi]

\* for original in youtube_playlist: dictionary[original] = [0, ""]
StartOriginal ==
    /\ spc = "for_original"
    /\ oi <= Len(youtube_playlist)
    /\ dictionary' = [k \in DOMAIN dictionary \cup {original} |->
                        IF k = original THEN <<0, <<>>>> ELSE dictionary[k]]
    /\ mi' = 1
    /\ spc' = "for_modified"
    /\ UNCHANGED <<youtube_playlist, downloaded_music_list, oi, new_similarity, normVars, matchVars>>

\* the comparison with >= in place of >: a later equal score replaces
CompareSimilarityLastWins ==
    /\ spc = "for_modified"
    /\ mi <= Len(downloaded_music_list)
    /\ findsimilarity(original, modified) # ZeroDivisionError
    /\ new_similarity' = findsimilarity(original, modified)
    /\ dictionary' = IF new_similarity'[1] >= dictionary[original][1]
                     THEN [dictionary EXCEPT ![original] = new_similarity']
                     ELSE dictionary
    /\ mi' = mi + 1
    /\ UNCHANGED <<youtube_playlist, downloaded_music_list, oi, spc, normVars, matchVars>>

\* for modified in downloaded_music_list: the new score replaces a smaller one
CompareSimilarity ==
    /\ spc = "for_modified"
    /\ mi <= Len(downloaded_music_list)
    /\ findsimilarity(original, modified) # ZeroDivisionError
    /\ new_similarity' = findsimilarity(original, modified)
    /\ dictionary' = IF new_similarity'[1] > dictionary[original][1]
                     THEN [dictionary EXCEPT ![original] = new_similarity']
                     ELSE dictionary
    /\ mi' = mi + 1
    /\ UNCHANGED <<youtube_playlist, downloaded_music_list, oi, spc, normVars, matchVars>>

\* findsimilarity raises: nothing catches it and the script ends
CompareRaises ==
    /\ spc = "for_modified"
    /\ mi <= Len(downloaded_music_list)
    /\ findsimilarity(original, modified) = ZeroDivisionError
    /\ spc' = ZeroDivisionError
    /\ UNCHANGED <<youtube_playlist, downloaded_music_list, dictionary, oi, mi,
                   new_similarity, normVars, matchVars>>

\* the inner loop is over
EndOriginal ==
    /\ spc = "for_modified"
    /\ mi > Len(downloaded_music_list)
    /\ oi' = oi + 1
    /\ spc' = "for_original"
    /\ UNCHANGED <<youtube_playlist, downloaded_music_list, dictionary, mi,
                   new_similarity, normVars, matchVars>>

\* the outer loop is over
ScanFinished ==
    /\ spc = "for_original"
    /\ oi > Len(youtube_playlist)
    /\ spc' = "done"
    /\ UNCHANGED <<youtube_playlist, downloaded_music_list, dictionary, oi, mi,
                   new_similarity, normVars, matchVars>>

NextScan ==
    StartOriginal \/ CompareSimilarity \/ CompareRaises \/ EndOriginal \/ ScanFinished

SpecScan == InitScan /\ [][NextScan]_vars

---------------------------------------------------------------------------
(* The matcher scripts: youtube_to_m3u_alternative.py and                 *)
(* youtube_to_m3u_HighChance_LowPrecision.py look a title up by its key   *)
(* and then by the overlap of its words; find_missing_songs.py looks it   *)
(* up by its key only.                                                     *)

RECURSIVE SplitFrom(_, _)
RECURSIVE TokenEnd(_, _)
\* str.split() from index i on: the sequence of the whitespace-delimited tokens
TokenEnd(s, j) == IF j <= Len(s) /\ ~IsSpace(s[j]) THEN TokenEnd(s, j + 1) ELSE j

\* the token from index b to before index e, and the tokens after it
TokenAnd(s, b, e) ==
    IF b > Len(s) THEN <<>> ELSE <<SubSeq(s, b, e - 1)>> \o SplitFrom(s, e)

SplitFrom(s, i) == TokenAnd(s, SkipSpaces(s, i), TokenEnd(s, SkipSpaces(s, i)))

\* str.split()
Split(s) == SplitFrom(s, 1)

\* matched_local_path = None: a value no path is equal to
NoPath == <<"None">>

\* set(key.split())
WordSet(k) == {Split(k)[i] : i \in 1..Len(Split(k))}

\* len(yt_words.intersection(local_words)) / len(yt_words), as a fraction
Overlap(yt_words, local_words) ==
    <<Cardinality(yt_words \cap local_words), Cardinality(yt_words)>>

\* score > 0.7
Above70(score) == 10 * score[1] > 7 * score[2]

\* score >= 0.7
AtLeast70(score) == 10 * score[1] >= 7 * score[2]

\* a >= b in the place of a > b
NotLess(a, b) == a[1] * b[2] >= b[1] * a[2]

\* a > b, for two fractions
Greater(a, b) == a[1] * b[2] > b[1] * a[2]

\* s.startswith(w)
StartsWith(s, w) == Len(s) >= Len(w) /\ SubSeq(s, 1, Len(w)) = w

\* line.replace("\\", "/")
ReplaceBackslash(ln) ==
    [i \in 1..Len(ln) |-> IF ln[i] = "\\" THEN "/" ELSE ln[i]]

\* os.path.basename(path): what follows the last slash
Basename(path) ==
    SubSeq(path, Max({0} \cup {i \in 1..Len(path) : path[i] = "/"}) + 1, Len(path))

DigitChars == <<"0","1","2","3","4","5","6","7","8","9">>

RECURSIVE DecimalDigits(_)
\* str(n) of a natural number
DecimalDigits(n) ==
    IF n < 10 THEN <<DigitChars[n + 1]>>
    ELSE DecimalDigits(n \div 10) \o <<DigitChars[(n % 10) + 1]>>

Alternative == "youtube_to_m3u_alternative"
HighChance  == "youtube_to_m3u_HighChance_LowPrecision"
FindMissing == "find_missing_songs"

Scripts == {Alternative, HighChance, FindMissing}

\* the normaliser a script calls
Key(s, t) ==
    IF s = FindMissing THEN clean_title_for_comparison(t)
    ELSE normalize_text_for_comparison(t)

ExtM3u == <<"#","E","X","T","M","3","U">>
ExtInf == <<"#","E","X","T","I","N","F",":">>

\* the lines a parser passes over: empty lines and, in the alternative script,
\* the header and the #EXTINF lines, in the other two every line with a "#"
IsSkipped(s, ln) ==
    \/ ln = <<>>
    \/ IF s = Alternative THEN StartsWith(ln, ExtM3u) \/ StartsWith(ln, ExtInf)
       ELSE StartsWith(ln, <<"#">>)

\* the path a parser reads from a line
PathOf(s, ln) == IF s = Alternative THEN ReplaceBackslash(ln) ELSE ln

\* the keys of the map
MapKeys(map) == {map[i][1] : i \in 1..Len(map)}

\* the key in the place of the path stored under it
MapGetKey(map, k) == k

\* local_files_map[k]
MapGet(map, k) == map[CHOOSE i \in 1..Len(map) : map[i][1] = k][2]

MaxLines == 3
MaxVideos == 2

\* lines of a library file
LibraryLines ==
    << ExtM3u,
       <<"#","E","X","T","I","N","F",":","7",",","a">>,
       <<"d","/","a"," ","b"," ","c","(","M","P","3","_","1","6","0","K",")",".","m","p","3">>,
       <<"#","a">>,
       <<"a"," ","b",".","m","p","3">>,
       <<>>,
       <<"a"," ","b"," ","c"," ","d"," ","e"," ","f"," ","g">>,
       <<"_">> >>

\* records of a playlist
Videos ==
    << [title |-> <<"a"," ","b"," ","c">>, duration |-> 215],
       [title |-> <<"a"," ","b"," ","x">>, duration |-> 7],
       [title |-> <<"a"," ","b"," ","c"," ","d">>, duration |-> 60],
       [title |-> <<"a"," ","b"," ","m","p","3">>, duration |-> 0],
       [title |-> <<"a"," ","b"," ","c"," ","d"," ","e"," ","f"," ","g"," ","h"," ","i"," ","j">>, duration |-> 1000],
       [title |-> <<"!","!">>, duration |-> 9],
       [title |-> <<EmDash>>, duration |-> 31] >>

\* the runs of at most n consecutive elements of a catalogue, which goes on
\* with its first element after its last
RunsOf(catalogue, n) ==
    { [i \in 1..m |-> catalogue[((st + i - 2) % Len(catalogue)) + 1]] :
        st \in 1..Len(catalogue), m \in 0..n }

\* the state after the prompts are answered and the fetch has returned
InitMatch ==
    /\ script \in Scripts
    /\ m3u_lines \in RunsOf(LibraryLines, MaxLines)
    /\ m3u_open = "ok"
    /\ playlist_data \in RunsOf(Videos, MaxVideos)
    /\ li = 0
    /\ local_files_map = <<>>
    /\ local_titles = {}
    /\ vi = 0
    /\ normalized_yt_title = <<>>
    /\ matched_local_path = NoPath
    /\ best_match_score = <<0, 1>>
    /\ overlap_score = <<0, 1>>
    /\ found_lenient = FALSE
    /\ m3u_content = <<>>
    /\ matched_count = 0
    /\ missing_songs = <<>>
    /\ files = <<>>
    /\ mpc = "fetched"
    /\ FetchIdle
    /\ NormIdle
    /\ ScanIdle

\* the record and the title the loop is at
video    == playlist_data[vi]
yt_title == playlist_data[vi].title

\* the line the parser is at, stripped
line == StripChars("space", m3u_lines[li])

\* if not playlist_data: exit()
NoVideos ==
    /\ mpc = "fetched"
    /\ playlist_data = <<>>
    /\ mpc' = "exit"
    /\ UNCHANGED <<inputVars, li, local_files_map, local_titles, vi,
                   normalized_yt_title, matched_local_path, best_match_score,
                   overlap_score, found_lenient, m3u_content, matched_count,
                   missing_songs, files, normVars, scanVars>>

\* the parser opens the library file
OpenLibrary ==
    /\ mpc = "fetched"
    /\ script \in Scripts
    /\ playlist_data # <<>>
    /\ m3u_open = "ok"
    /\ mpc' = "parse"
    /\ li' = 1
    /\ UNCHANGED <<inputVars, local_files_map, local_titles, vi,
                   normalized_yt_title, matched_local_path, best_match_score,
                   overlap_score, found_lenient, m3u_content, matched_count,
                   missing_songs, files, normVars, scanVars>>

\* continue: the line is empty or a line the parser passes over
SkipLine ==
    /\ mpc = "parse"
    /\ li <= Len(m3u_lines)
    /\ IsSkipped(script, line)
    /\ li' = li + 1
    /\ UNCHANGED <<inputVars, local_files_map, local_titles, vi,
                   normalized_yt_title, matched_local_path, best_match_score,
                   overlap_score, found_lenient, m3u_content, matched_count,
                   missing_songs, files, mpc, normVars, scanVars>>

\* the key of the file name of the line
LineKey == Key(script, Basename(PathOf(script, line)))

\* local_files_map[normalized_filename] = current_path, for a new key
StorePath ==
    /\ mpc = "parse"
    /\ script = Alternative
    /\ li <= Len(m3u_lines)
    /\ ~IsSkipped(script, line)
    /\ LineKey # <<>>
    /\ LineKey \notin MapKeys(local_files_map)
    /\ local_files_map' = Append(local_files_map, <<LineKey, PathOf(script, line)>>)
    /\ li' = li + 1
    /\ UNCHANGED <<inputVars, local_titles, vi,
                   normalized_yt_title, matched_local_path, best_match_score,
                   overlap_score, found_lenient, m3u_content, matched_count,
                   missing_songs, files, mpc, normVars, scanVars>>

\* local_filenames_normalized.add(normalized_filename),
\* local_cleaned_titles.add(cleaned_title)
AddTitle ==
    /\ mpc = "parse"
    /\ script \in {HighChance, FindMissing}
    /\ li <= Len(m3u_lines)
    /\ ~IsSkipped(script, line)
    /\ LineKey # <<>>
    /\ local_titles' = local_titles \cup {LineKey}
    /\ li' = li + 1
    /\ UNCHANGED <<inputVars, local_files_map, vi,
                   normalized_yt_title, matched_local_path, best_match_score,
                   overlap_score, found_lenient, m3u_content, matched_count,
                   missing_songs, files, mpc, normVars, scanVars>>

\* the key is empty, or the map has it already: nothing is stored
DropLine ==
    /\ mpc = "parse"
    /\ li <= Len(m3u_lines)
    /\ ~IsSkipped(script, line)
    /\ \/ LineKey = <<>>
       \/ script = Alternative /\ LineKey \in MapKeys(local_files_map)
    /\ li' = li + 1
    /\ UNCHANGED <<inputVars, local_files_map, local_titles, vi,
                   normalized_yt_title, matched_local_path, best_match_score,
                   overlap_score, found_lenient, m3u_content, matched_count,
                   missing_songs, files, mpc, normVars, scanVars>>

\* what the parser returned is empty
NoLocalEntries ==
    IF script = Alternative THEN local_files_map = <<>> ELSE local_titles = {}

\* the script without the exit: the loop over the titles begins although the
\* parser returned nothing
NoLocalSongsGoesOn ==
    /\ mpc = "parse"
    /\ li > Len(m3u_lines)
    /\ NoLocalEntries
    /\ mpc' = "match"
    /\ vi' = 1
    /\ m3u_content' = IF script = Alternative THEN <<ExtM3u>> ELSE <<>>
    /\ UNCHANGED <<inputVars, li, local_files_map, local_titles,
                   normalized_yt_title, matched_local_path, best_match_score,
                   overlap_score, found_lenient, matched_count, missing_songs,
                   files, normVars, scanVars>>

\* if not local_files_info: exit()
NoLocalSongs ==
    /\ mpc = "parse"
    /\ li > Len(m3u_lines)
    /\ NoLocalEntries
    /\ mpc' = "exit"
    /\ UNCHANGED <<inputVars, li, local_files_map, local_titles, vi,
                   normalized_yt_title, matched_local_path, best_match_score,
                   overlap_score, found_lenient, m3u_content, matched_count,
                   missing_songs, files, normVars, scanVars>>

\* the loop over the titles begins: m3u_content = ["#EXTM3U"],
\* missing_songs = [], matched_count = 0
StartMatching ==
    /\ mpc = "parse"
    /\ li > Len(m3u_lines)
    /\ ~NoLocalEntries
    /\ mpc' = "match"
    /\ vi' = 1
    /\ m3u_content' = IF script = Alternative THEN <<ExtM3u>> ELSE <<>>
    /\ matched_count' = 0
    /\ missing_songs' = <<>>
    /\ UNCHANGED <<inputVars, li, local_files_map, local_titles,
                   normalized_yt_title, matched_local_path, best_match_score,
                   overlap_score, found_lenient, files, normVars, scanVars>>

\* the result of the lenient scan so far: the best score, the path that has
\* it and the last score
ScanScored(score, path, r) ==
    IF AtLeast70(score) /\ Greater(score, r.best_match_score)
    THEN [best_match_score |-> score, matched_local_path |-> path,
          overlap_score |-> score]
    ELSE [r EXCEPT !.overlap_score = score]

\* one entry of the map in the lenient scan: if local_words: ...
ScanEntry(yt_words, local_words, path, r) ==
    IF local_words = {} THEN r
    ELSE ScanScored(Overlap(yt_words, local_words), path, r)

RECURSIVE LenientScan(_, _, _, _)
\* for local_norm_filename, local_full_path in local_files_map.items(),
\* over the first n entries
LenientScan(yt_words, map, n, r) ==
    IF n = 0 THEN r
    ELSE ScanEntry(yt_words, WordSet(map[n][1]), map[n][2],
                   LenientScan(yt_words, map, n - 1, r))

\* the lenient scan of the whole map for a key
Scanned(k) ==
    LenientScan(WordSet(k), local_files_map, Len(local_files_map),
                [best_match_score |-> <<0, 1>>, matched_local_path |-> NoPath,
                 overlap_score |-> overlap_score])

\* the three lines of a matched song
Entry(v, path) ==
    << ExtInf \o DecimalDigits(v.duration) \o <<",">> \o v.title, path, <<>> >>

\* the title's key is a key of the map
MatchDirect ==
    /\ mpc = "match"
    /\ script = Alternative
    /\ vi <= Len(playlist_data)
    /\ normalized_yt_title' = Key(script, yt_title)
    /\ normalized_yt_title' \in MapKeys(local_files_map)
    /\ matched_local_path' = MapGet(local_files_map, normalized_yt_title')
    /\ m3u_content' = m3u_content \o Entry(video, matched_local_path')
    /\ matched_count' = matched_count + 1
    /\ vi' = vi + 1
    /\ UNCHANGED <<inputVars, li, local_files_map, local_titles, best_match_score,
                   overlap_score, found_lenient, missing_songs, files, mpc,
                   normVars, scanVars>>

\* the key is not in the map and the scan finds a path
MatchLenient ==
    /\ mpc = "match"
    /\ script = Alternative
    /\ vi <= Len(playlist_data)
    /\ normalized_yt_title' = Key(script, yt_title)
    /\ normalized_yt_title' \notin MapKeys(local_files_map)
    /\ WordSet(normalized_yt_title') # {}
    /\ Scanned(normalized_yt_title').matched_local_path # NoPath
    /\ matched_local_path' = Scanned(normalized_yt_title').matched_local_path
    /\ best_match_score' = Scanned(normalized_yt_title').best_match_score
    /\ overlap_score' = Scanned(normalized_yt_title').overlap_score
    /\ m3u_content' = m3u_content \o Entry(video, matched_local_path')
    /\ matched_count' = matched_count + 1
    /\ vi' = vi + 1
    /\ UNCHANGED <<inputVars, li, local_files_map, local_titles, found_lenient,
                   missing_songs, files, mpc, normVars, scanVars>>

\* NoMatch without the test of matched_local_path: the three lines are
\* appended for a title no path was found for
NoMatchEmitted ==
    /\ mpc = "match"
    /\ script = Alternative
    /\ vi <= Len(playlist_data)
    /\ normalized_yt_title' = Key(script, yt_title)
    /\ normalized_yt_title' \notin MapKeys(local_files_map)
    /\ WordSet(normalized_yt_title') # {}
    /\ Scanned(normalized_yt_title').matched_local_path = NoPath
    /\ matched_local_path' = NoPath
    /\ best_match_score' = Scanned(normalized_yt_title').best_match_score
    /\ overlap_score' = Scanned(normalized_yt_title').overlap_score
    /\ m3u_content' = m3u_content \o Entry(video, NoPath)
    /\ matched_count' = matched_count + 1
    /\ vi' = vi + 1
    /\ UNCHANGED <<inputVars, li, local_files_map, local_titles, found_lenient,
                   missing_songs, files, mpc, normVars, scanVars>>

\* the key is not in the map and the scan finds no path
NoMatch ==
    /\ mpc = "match"
    /\ script = Alternative
    /\ vi <= Len(playlist_data)
    /\ normalized_yt_title' = Key(script, yt_title)
    /\ normalized_yt_title' \notin MapKeys(local_files_map)
    /\ WordSet(normalized_yt_title') # {}
    /\ Scanned(normalized_yt_title').matched_local_path = NoPath
    /\ matched_local_path' = NoPath
    /\ best_match_score' = Scanned(normalized_yt_title').best_match_score
    /\ overlap_score' = Scanned(normalized_yt_title').overlap_score
    /\ vi' = vi + 1
    /\ UNCHANGED <<inputVars, li, local_files_map, local_titles, found_lenient,
                   m3u_content, matched_count, missing_songs, files, mpc,
                   normVars, scanVars>>

\* the key is not in the map and has no words: no scan
NoWords ==
    /\ mpc = "match"
    /\ script = Alternative
    /\ vi <= Len(playlist_data)
    /\ normalized_yt_title' = Key(script, yt_title)
    /\ normalized_yt_title' \notin MapKeys(local_files_map)
    /\ WordSet(normalized_yt_title') = {}
    /\ matched_local_path' = NoPath
    /\ vi' = vi + 1
    /\ UNCHANGED <<inputVars, li, local_files_map, local_titles, best_match_score,
                   overlap_score, found_lenient, m3u_content, matched_count,
                   missing_songs, files, mpc, normVars, scanVars>>

\* with open(output_file, "w") as f: f.write("\n".join(m3u_content))
output_file == "youtube_playlist_matched.m3u"

WritePlaylist ==
    /\ mpc = "match"
    /\ script = Alternative
    /\ vi > Len(playlist_data)
    /\ files' = (output_file :> m3u_content)
    /\ mpc' = "done"
    /\ UNCHANGED <<inputVars, li, local_files_map, local_titles, vi,
                   normalized_yt_title, matched_local_path, best_match_score,
                   overlap_score, found_lenient, m3u_content, matched_count,
                   missing_songs, normVars, scanVars>>

\* the lenient check of the HighChance script: some file name with words has
\* at least 0.7 of the title's words
LenientFound(yt_words, names) ==
    /\ yt_words # {}
    /\ \E local_norm_filename \in names :
           /\ WordSet(local_norm_filename) # {}
           /\ AtLeast70(Overlap(yt_words, WordSet(local_norm_filename)))

\* the title's key is in the set: matched_count += 1
FoundDirect ==
    /\ mpc = "match"
    /\ script = HighChance
    /\ vi <= Len(playlist_data)
    /\ normalized_yt_title' = Key(script, yt_title)
    /\ normalized_yt_title' \in local_titles
    /\ matched_count' = matched_count + 1
    /\ vi' = vi + 1
    /\ UNCHANGED <<inputVars, li, local_files_map, local_titles,
                   matched_local_path, best_match_score, overlap_score,
                   found_lenient, m3u_content, missing_songs, files, mpc,
                   normVars, scanVars>>

\* the key is not in the set and the lenient check finds a file name
FoundLenient ==
    /\ mpc = "match"
    /\ script = HighChance
    /\ vi <= Len(playlist_data)
    /\ normalized_yt_title' = Key(script, yt_title)
    /\ normalized_yt_title' \notin local_titles
    /\ LenientFound(WordSet(normalized_yt_title'), local_titles)
    /\ found_lenient' = TRUE
    /\ vi' = vi + 1
    /\ UNCHANGED <<inputVars, li, local_files_map, local_titles,
                   matched_local_path, best_match_score, overlap_score,
                   m3u_content, matched_count, missing_songs, files, mpc,
                   normVars, scanVars>>

\* if not found_lenient: missing_songs.append(yt_title)
MissingSong ==
    /\ mpc = "match"
    /\ script = HighChance
    /\ vi <= Len(playlist_data)
    /\ normalized_yt_title' = Key(script, yt_title)
    /\ normalized_yt_title' \notin local_titles
    /\ ~LenientFound(WordSet(normalized_yt_title'), local_titles)
    /\ found_lenient' = FALSE
    /\ missing_songs' = Append(missing_songs, yt_title)
    /\ vi' = vi + 1
    /\ UNCHANGED <<inputVars, li, local_files_map, local_titles,
                   matched_local_path, best_match_score, overlap_score,
                   m3u_content, matched_count, files, mpc, normVars, scanVars>>

\* find_missing_songs.py: the cleaned title is in the set
FoundCleaned ==
    /\ mpc = "match"
    /\ script = FindMissing
    /\ vi <= Len(playlist_data)
    /\ normalized_yt_title' = Key(script, yt_title)
    /\ normalized_yt_title' \in local_titles
    /\ matched_count' = matched_count + 1
    /\ vi' = vi + 1
    /\ UNCHANGED <<inputVars, li, local_files_map, local_titles,
                   matched_local_path, best_match_score, overlap_score,
                   found_lenient, m3u_content, missing_songs, files, mpc,
                   normVars, scanVars>>

\* find_missing_songs.py: missing_songs_raw.append(yt_title_raw)
MissingCleaned ==
    /\ mpc = "match"
    /\ script = FindMissing
    /\ vi <= Len(playlist_data)
    /\ normalized_yt_title' = Key(script, yt_title)
    /\ normalized_yt_title' \notin local_titles
    /\ missing_songs' = Append(missing_songs, yt_title)
    /\ vi' = vi + 1
    /\ UNCHANGED <<inputVars, li, local_files_map, local_titles,
                   matched_local_path, best_match_score, overlap_score,
                   found_lenient, m3u_content, matched_count, files, mpc,
                   normVars, scanVars>>

output_missing_file == "missing_youtube_songs.txt"

\* if missing_songs: the list is written, a song a line
WriteMissing ==
    /\ mpc = "match"
    /\ script \in {HighChance, FindMissing}
    /\ vi > Len(playlist_data)
    /\ missing_songs # <<>>
    /\ files' = (output_missing_file :> missing_songs)
    /\ mpc' = "done"
    /\ UNCHANGED <<inputVars, li, local_files_map, local_titles, vi,
                   normalized_yt_title, matched_local_path, best_match_score,
                   overlap_score, found_lenient, m3u_content, matched_count,
                   missing_songs, normVars, scanVars>>

\* else: no song is missing and no file is written
AllFound ==
    /\ mpc = "match"
    /\ script \in {HighChance, FindMissing}
    /\ vi > Len(playlist_data)
    /\ missing_songs = <<>>
    /\ mpc' = "done"
    /\ UNCHANGED <<inputVars, li, local_files_map, local_titles, vi,
                   normalized_yt_title, matched_local_path, best_match_score,
                   overlap_score, found_lenient, m3u_content, matched_count,
                   missing_songs, files, normVars, scanVars>>

NextMatch ==
    \/ NoVideos \/ OpenLibrary
    \/ SkipLine \/ StorePath \/ AddTitle \/ DropLine
    \/ NoLocalSongs \/ StartMatching
    \/ MatchDirect \/ MatchLenient \/ NoMatch \/ NoWords \/ WritePlaylist
    \/ FoundDirect \/ FoundLenient \/ MissingSong
    \/ FoundCleaned \/ MissingCleaned
    \/ WriteMissing \/ AllFound

SpecMatch == InitMatch /\ [][NextMatch]_vars

---------------------------------------------------------------------------
(* generate_m3u_playlist_with_matching called on what the parser returns, *)
(* without the exits of __main__: the map may be empty and so may the     *)
(* list of records.                                                        *)

\* lines of a library file whose keys share their words: the first and the
\* last have the same key
OverlapLines ==
    << <<"1","/","a"," ","b"," ","c">>,
       <<"2","/","c"," ","b"," ","a">>,
       <<"3","/","a"," ","b"," ","c"," ","d"," ","e">>,
       <<"4","/","a"," ","b"," ","c">> >>

InitGenerate ==
    /\ script = Alternative
    /\ m3u_lines \in RunsOf(LibraryLines, MaxLines) \cup RunsOf(OverlapLines, MaxLines)
    /\ m3u_open = "ok"
    /\ playlist_data \in RunsOf(Videos, MaxVideos)
    /\ li = 1
    /\ local_files_map = <<>>
    /\ local_titles = {}
    /\ vi = 0
    /\ normalized_yt_title = <<>>
    /\ matched_local_path = NoPath
    /\ best_match_score = <<0, 1>>
    /\ overlap_score = <<0, 1>>
    /\ found_lenient = FALSE
    /\ m3u_content = <<>>
    /\ matched_count = 0
    /\ missing_songs = <<>>
    /\ files = <<>>
    /\ mpc = "parse"
    /\ FetchIdle
    /\ NormIdle
    /\ ScanIdle

\* generate_m3u_playlist_with_matching(playlist_data, local_files_map):
\* m3u_content = ["#EXTM3U"], matched_songs_count = 0
CallGenerate ==
    /\ mpc = "parse"
    /\ li > Len(m3u_lines)
    /\ mpc' = "match"
    /\ vi' = 1
    /\ m3u_content' = <<ExtM3u>>
    /\ matched_count' = 0
    /\ UNCHANGED <<inputVars, li, local_files_map, local_titles,
                   normalized_yt_title, matched_local_path, best_match_score,
                   overlap_score, found_lenient, missing_songs, files,
                   normVars, scanVars>>

NextGenerate ==
    \/ SkipLine \/ StorePath \/ DropLine
    \/ CallGenerate
    \/ MatchDirect \/ MatchLenient \/ NoMatch \/ NoWords \/ WritePlaylist

SpecGenerate == InitGenerate /\ [][NextGenerate]_vars

\* the function called on any map, and the best-of-all scan
SpecEmptyReference ==
    (InitGenerate \/ InitScan) /\ [][NextGenerate \/ NextScan]_vars

---------------------------------------------------------------------------
(* youtube_to_m3u.py: the file name and the display title made of a       *)
(* title, and the playlist of speculative paths.                           *)

\* sanitize_filename_for_path up to the strip: the invalid characters are
\* underscores, a run of underscores is one, spaces and underscores are
\* stripped from both ends
SanitizedStripped(title) ==
    StripChars("blank_underscore",
        Sub(<<"run", "underscore">>, <<"_">>, SubChars("path_invalid", "_", title)))

\* if title.startswith("_") and not sanitized.startswith("_"):
\*     sanitized = "_" + sanitized
LeadingUnderscore(title, sanitized) ==
    IF StartsWith(title, <<"_">>) /\ ~StartsWith(sanitized, <<"_">>)
    THEN <<"_">> \o sanitized
    ELSE sanitized

\* the name without the rule of the leading underscore
WithoutLeadingUnderscore(title) == SanitizedStripped(title)

sanitize_filename_for_path(title) == LeadingUnderscore(title, SanitizedStripped(title))

\* clean_display_title without the last step: the noise phrases and the
\* (mp3_..k) tags are removed
DisplayUnstripped(title) ==
    Sub(<<"bitrate", <<"m","p","3">>>>, <<>>, Sub(<<"noise", "display">>, <<>>, title))

clean_display_title(title) == StripChars("blank_hyphen_underscore", DisplayUnstripped(title))

\* pieces of a title
LyricsTag == <<" ","[","L","y","r","i","c","s","]">>

TitlePieces ==
    { <<"a">>, <<"B">>, <<" ">>, <<"_">>, <<"-">>, <<"'">>, <<"&">>, <<"/">>, <<"!">>,
      OfficialAudio, OfficialVideo, LyricsTag, Mp3Tag }

Titles == {Concat(ps) : ps \in UNION {[1..n -> TitlePieces] : n \in 0..MaxPieces}}

TitleFunctions == {"sanitize", "display"}

InitTitle ==
    /\ fn \in TitleFunctions
    /\ text \in Titles
    /\ key = <<>>
    /\ npc = "input"
    /\ ScanIdle
    /\ MatchIdle

SanitizeFilename ==
    /\ npc = "input"
    /\ fn = "sanitize"
    /\ key' = sanitize_filename_for_path(text)
    /\ npc' = "done"
    /\ UNCHANGED <<fn, text, scanVars, matchVars>>

CleanDisplayTitle ==
    /\ npc = "input"
    /\ fn = "display"
    /\ key' = clean_display_title(text)
    /\ npc' = "done"
    /\ UNCHANGED <<fn, text, scanVars, matchVars>>

NextTitle == SanitizeFilename \/ CleanDisplayTitle

SpecTitle == InitTitle /\ [][NextTitle]_vars

---------------------------------------------------------------------------
(* youtube_to_m3u.py: generate_m3u_playlist, called on a list of records. *)

YoutubeToM3u == "youtube_to_m3u"

RELATIVE_ANDROID_BASE_PATH == <<"s","n","a","p","t","u","b","e","/","d","o","w","n","l","o","a","d","/","S","n","a","p","T","u","b","e"," ","A","u","d","i","o","/">>

\* os.path.join(base, filename) for a base that ends with a slash
OsPathJoin(base, filename) ==
    IF StartsWith(filename, <<"/">>) THEN filename ELSE base \o filename

\* f"{filename_base}(MP3_160K).mp3"
Mp3Filename(filename_base) == filename_base \o Mp3Tag \o Mp3Ext

\* full_android_path
FullAndroidPath(title) ==
    ReplaceBackslash(OsPathJoin(RELATIVE_ANDROID_BASE_PATH,
                                Mp3Filename(sanitize_filename_for_path(title))))

\* the three lines of a record, with the title as it came for display
BlockOfOriginalTitle(v) ==
    << ExtInf \o DecimalDigits(v.duration) \o <<",">> \o v.title,
       FullAndroidPath(v.title), <<>> >>

\* the three lines appended for a record
SpeculativeBlock(v) ==
    << ExtInf \o DecimalDigits(v.duration) \o <<",">> \o clean_display_title(v.title),
       FullAndroidPath(v.title), <<>> >>

\* records of a playlist for the speculative paths
SpeculativeVideos ==
    << [title |-> SongTitle \o OfficialAudio, duration |-> 215],
       [title |-> <<"_","a","'","b">> \o OfficialVideo, duration |-> 7],
       [title |-> <<"a"," ","&"," ","b">> \o LyricsTag, duration |-> 1000],
       [title |-> <<"a","/","b"," ","-"," ">>, duration |-> 0],
       [title |-> <<"a">>, duration |-> 60] >>

\* the sequences of at most n elements of a catalogue
ListsOf(catalogue, n) ==
    UNION { { [i \in 1..m |-> catalogue[ix[i]]] : ix \in [1..m -> 1..Len(catalogue)] } :
            m \in 0..n }

\* generate_m3u_playlist is called on a list of records
InitSpeculative ==
    /\ script = YoutubeToM3u
    /\ m3u_lines = <<>>
    /\ m3u_open = "ok"
    /\ playlist_data \in ListsOf(SpeculativeVideos, MaxVideos)
    /\ li = 0
    /\ local_files_map = <<>>
    /\ local_titles = {}
    /\ vi = 0
    /\ normalized_yt_title = <<>>
    /\ matched_local_path = NoPath
    /\ best_match_score = <<0, 1>>
    /\ overlap_score = <<0, 1>>
    /\ found_lenient = FALSE
    /\ m3u_content = <<>>
    /\ matched_count = 0
    /\ missing_songs = <<>>
    /\ files = <<>>
    /\ mpc = "call"
    /\ FetchIdle
    /\ NormIdle
    /\ ScanIdle

\* m3u_content = ["#EXTM3U"]
BeginPlaylist ==
    /\ mpc = "call"
    /\ script = YoutubeToM3u
    /\ mpc' = "match"
    /\ vi' = 1
    /\ m3u_content' = <<ExtM3u>>
    /\ UNCHANGED <<inputVars, li, local_files_map, local_titles,
                   normalized_yt_title, matched_local_path, best_match_score,
                   overlap_score, found_lenient, matched_count,
                   missing_songs, files, normVars, scanVars>>

\* for video in playlist_info: the three lines are appended
AppendBlock ==
    /\ mpc = "match"
    /\ script = YoutubeToM3u
    /\ vi <= Len(playlist_data)
    /\ m3u_content' = m3u_content \o SpeculativeBlock(video)
    /\ vi' = vi + 1
    /\ UNCHANGED <<inputVars, li, local_files_map, local_titles,
                   normalized_yt_title, matched_local_path, best_match_score,
                   overlap_score, found_lenient, matched_count,
                   missing_songs, files, mpc, normVars, scanVars>>

chill_playlist == "chill_playlist.m3u"

\* f.write("\n".join(m3u_content))
WriteSpeculative ==
    /\ mpc = "match"
    /\ script = YoutubeToM3u
    /\ vi > Len(playlist_data)
    /\ files' = (chill_playlist :> m3u_content)
    /\ mpc' = "done"
    /\ UNCHANGED <<inputVars, li, local_files_map, local_titles, vi,
                   normalized_yt_title, matched_local_path, best_match_score,
                   overlap_score, found_lenient, m3u_content, matched_count,
                   missing_songs, normVars, scanVars>>

NextSpeculative == BeginPlaylist \/ AppendBlock \/ WriteSpeculative

SpecSpeculative == InitSpeculative /\ [][NextSpeculative]_vars

---------------------------------------------------------------------------
(* The fetch: get_youtube_playlist_info of youtube_to_m3u.py and of        *)
(* youtube_to_m3u_alternative.py returns records with a title and a        *)
(* duration; get_youtube_playlist_info of the HighChance script and        *)
(* get_youtube_playlist_titles of find_missing_songs.py return titles.     *)
(* The four functions share their structure: one try around the run of    *)
(* yt-dlp and the loop over the lines of its output, and inside the loop  *)
(* one try around the handling of a line which catches JSONDecodeError    *)
(* only.                                                                   *)

\* values of Python
PyNone == [type |-> "None"]
PyStr(t) == [type |-> "str", value |-> t]
PyInt(n) == [type |-> "int", value |-> n]
\* a float, written by its whole part and its tenths
PyFloat(whole, tenths) == [type |-> "float", whole |-> whole, tenths |-> tenths]
PyList(elements) == [type |-> "list", elements |-> elements]
PyDict(items) == [type |-> "dict", items |-> items]

JSONDecodeError == [type |-> "JSONDecodeError"]
AttributeError == "AttributeError"
ValueError == "ValueError"
TypeError == "TypeError"

\* lines of the output of yt-dlp
GoodLine == "{\"title\": \"a b c\", \"duration\": 215}"
FloatLine == "{\"title\": \"a b mp3\", \"duration\": 7.9}"
CutLine == "{\"title\": \"a\""
ListLine == "[1]"
ClockLine == "{\"title\": \"a b\", \"duration\": \"3:15\"}"
NoTitleLine == "{\"duration\": 60}"
NullDurationLine == "{\"title\": \"a b c d\", \"duration\": null}"
EmptyLine == ""
MarksLine == "{\"title\": \"!!\", \"duration\": 9}"

OutputLines ==
    << GoodLine, FloatLine, CutLine, ListLine, ClockLine, NoTitleLine,
       NullDurationLine, EmptyLine, MarksLine >>

\* json.loads(line), for the lines of OutputLines
JsonLoads(ln) ==
    CASE ln = GoodLine ->
           PyDict([title |-> PyStr(<<"a"," ","b"," ","c">>), duration |-> PyInt(215)])
      [] ln = FloatLine ->
           PyDict([title |-> PyStr(<<"a"," ","b"," ","m","p","3">>), duration |-> PyFloat(7, 9)])
      [] ln = ListLine -> PyList(<<PyInt(1)>>)
      [] ln = ClockLine ->
           PyDict([title |-> PyStr(<<"a"," ","b">>),
                   duration |-> PyStr(<<"3",":","1","5">>)])
      [] ln = NoTitleLine -> PyDict([duration |-> PyInt(60)])
      [] ln = MarksLine ->
           PyDict([title |-> PyStr(<<"!","!">>), duration |-> PyInt(9)])
      [] ln = NullDurationLine ->
           PyDict([title |-> PyStr(<<"a"," ","b"," ","c"," ","d">>), duration |-> PyNone])
      [] OTHER -> JSONDecodeError

\* value.get(name): only a dict has the method
HasGet(value) == value.type = "dict"
Get(value, name) ==
    IF name \in DOMAIN value.items THEN value.items[name] ELSE PyNone

\* the truth value of a value
Truthy(value) ==
    CASE value.type = "None" -> FALSE
      [] value.type = "str" -> value.value # <<>>
      [] value.type = "int" -> value.value # 0
      [] value.type = "float" -> value.whole # 0 \/ value.tenths # 0
      [] value.type = "list" -> value.elements # <<>>
      [] value.type = "dict" -> DOMAIN value.items # {}

RECURSIVE ParseDigits(_)
\* the number a text of decimal digits stands for
ParseDigits(t) ==
    IF t = <<>> THEN 0
    ELSE 10 * ParseDigits(SubSeq(t, 1, Len(t) - 1))
           + (CHOOSE d \in 0..9 : DigitChars[d + 1] = t[Len(t)])

\* int(value) for a number that is not negative and for a text without
\* blanks, sign and underscores: the exception it raises, or "ok"
IntRaises(value) ==
    CASE value.type \in {"int", "float"} -> "ok"
      [] value.type = "str" ->
           IF value.value # <<>> /\ \A i \in 1..Len(value.value) : value.value[i] \in Digits
           THEN "ok" ELSE ValueError
      [] OTHER -> TypeError

\* and the integer it returns
IntOf(value) ==
    CASE value.type = "int" -> value.value
      [] value.type = "float" -> value.whole
      [] value.type = "str" -> ParseDigits(value.value)

\* the two functions that return records; the two others return titles
ReturnsRecords(s) == s \in {YoutubeToM3u, Alternative}

\* process.stdout.strip().split("\n"), stdout given by its lines: the empty
\* lines at both ends go, and the empty text splits into one empty line
StrippedLines(stdout) ==
    IF \A i \in 1..Len(stdout) : stdout[i] = EmptyLine THEN <<EmptyLine>>
    ELSE SubSeq(stdout,
                CHOOSE i \in 1..Len(stdout) :
                    stdout[i] # EmptyLine /\ \A j \in 1..(i - 1) : stdout[j] = EmptyLine,
                CHOOSE i \in 1..Len(stdout) :
                    stdout[i] # EmptyLine /\ \A j \in (i + 1)..Len(stdout) : stdout[j] = EmptyLine)

MaxOutput == 3

\* a call of one of the four functions: yt-dlp has run and printed lines, or
\* subprocess.run raises
InitFetch ==
    /\ script \in {YoutubeToM3u, Alternative, HighChance, FindMissing}
    /\ \/ process \in [raised : {"ok"}, stdout : ListsOf(OutputLines, MaxOutput)]
       \/ process \in [raised : {"CalledProcessError", "FileNotFoundError"}, stdout : {<<>>}]
    /\ fl = 0
    /\ videos_info = <<>>
    /\ returned = <<>>
    /\ fpc = "call"
    /\ m3u_lines = <<>>
    /\ m3u_open = "ok"
    /\ playlist_data = <<>>
    /\ li = 0
    /\ local_files_map = <<>>
    /\ local_titles = {}
    /\ vi = 0
    /\ normalized_yt_title = <<>>
    /\ matched_local_path = NoPath
    /\ best_match_score = <<0, 1>>
    /\ overlap_score = <<0, 1>>
    /\ found_lenient = FALSE
    /\ m3u_content = <<>>
    /\ matched_count = 0
    /\ missing_songs = <<>>
    /\ files = <<>>
    /\ mpc = "fetch"
    /\ NormIdle
    /\ ScanIdle

\* what a fetch leaves alone
besideFetch ==
    <<normVars, scanVars, script, m3u_lines, m3u_open, playlist_data, li,
      local_files_map,
      local_titles, vi, normalized_yt_title, matched_local_path,
      best_match_score, overlap_score, found_lenient, m3u_content,
      matched_count, missing_songs, files, mpc>>

output_lines == StrippedLines(process.stdout)
output_line == output_lines[fl]
video_data == JsonLoads(output_line)

\* subprocess.run raises CalledProcessError or FileNotFoundError: return []
RunFails ==
    /\ fpc = "call"
    /\ process.raised # "ok"
    /\ returned' = <<>>
    /\ fpc' = "returned"
    /\ UNCHANGED <<process, fl, videos_info, besideFetch>>

\* videos_info = [] and the loop begins
RunSucceeds ==
    /\ fpc = "call"
    /\ process.raised = "ok"
    /\ videos_info' = <<>>
    /\ fl' = 1
    /\ fpc' = "loop"
    /\ UNCHANGED <<process, returned, besideFetch>>

InLoop == fpc = "loop" /\ fl <= Len(output_lines)

\* if line: an empty line is passed over
PassEmptyLine ==
    /\ InLoop
    /\ output_line = EmptyLine
    /\ fl' = fl + 1
    /\ UNCHANGED <<process, videos_info, returned, fpc, besideFetch>>

\* json.loads raises JSONDecodeError: the warning, and the next line
WarnUndecodable ==
    /\ InLoop
    /\ output_line # EmptyLine
    /\ video_data = JSONDecodeError
    /\ fl' = fl + 1
    /\ UNCHANGED <<process, videos_info, returned, fpc, besideFetch>>

Decoded == InLoop /\ output_line # EmptyLine /\ video_data # JSONDecodeError

\* the test of the if: title, and for the records a duration that is not None
Kept(s, data) ==
    /\ Truthy(Get(data, "title"))
    /\ ReturnsRecords(s) => Get(data, "duration") # PyNone

\* what is appended
Fetched(s, data) ==
    IF ReturnsRecords(s)
    THEN [title |-> Get(data, "title").value, duration |-> IntOf(Get(data, "duration"))]
    ELSE Get(data, "title").value

\* the exception the handling of a decoded line raises, or "ok"
LineRaises(s, data) ==
    IF ~HasGet(data) THEN AttributeError
    ELSE IF Kept(s, data) /\ ReturnsRecords(s)
         THEN IntRaises(Get(data, "duration"))
         ELSE "ok"

\* the record, or the title, is appended
AppendVideo ==
    /\ Decoded
    /\ LineRaises(script, video_data) = "ok"
    /\ Kept(script, video_data)
    /\ videos_info' = Append(videos_info, Fetched(script, video_data))
    /\ fl' = fl + 1
    /\ UNCHANGED <<process, returned, fpc, besideFetch>>

\* the test of the if fails: nothing is appended
LeaveOut ==
    /\ Decoded
    /\ LineRaises(script, video_data) = "ok"
    /\ ~Kept(script, video_data)
    /\ fl' = fl + 1
    /\ UNCHANGED <<process, videos_info, returned, fpc, besideFetch>>

\* an exception that is not JSONDecodeError leaves the loop and is caught by
\* except Exception of the outer try: return []
UnexpectedError ==
    /\ Decoded
    /\ LineRaises(script, video_data) # "ok"
    /\ returned' = <<>>
    /\ fpc' = "returned"
    /\ UNCHANGED <<process, fl, videos_info, besideFetch>>

\* return videos_info
ReturnVideos ==
    /\ fpc = "loop"
    /\ fl > Len(output_lines)
    /\ returned' = videos_info
    /\ fpc' = "returned"
    /\ UNCHANGED <<process, fl, videos_info, besideFetch>>

NextFetch ==
    \/ RunFails \/ RunSucceeds \/ PassEmptyLine \/ WarnUndecodable
    \/ AppendVideo \/ LeaveOut \/ UnexpectedError \/ ReturnVideos

SpecFetch == InitFetch /\ [][NextFetch]_vars

---------------------------------------------------------------------------
(* A whole run of a script that fetches: __main__ of youtube_to_m3u.py,   *)
(* youtube_to_m3u_alternative.py, youtube_to_m3u_HighChance_LowPrecision  *)
(* .py and find_missing_songs.py, after the prompts are answered.  The    *)
(* interpreter goes on with the next statement as long as there is one,   *)
(* and subprocess.run and open return or raise: the steps of a run are    *)
(* taken under weak fairness.                                              *)

InitRun ==
    /\ script \in {YoutubeToM3u} \cup Scripts
    /\ \/ process \in [raised : {"ok"}, stdout : RunsOf(OutputLines, MaxOutput)]
       \/ process \in [raised : {"CalledProcessError", "FileNotFoundError"}, stdout : {<<>>}]
    /\ \/ script = YoutubeToM3u /\ m3u_open = "ok" /\ m3u_lines = <<>>
       \/ script \in Scripts /\ m3u_open = "ok"
             /\ m3u_lines \in RunsOf(LibraryLines, MaxLines)
       \/ script \in Scripts /\ m3u_open = "FileNotFoundError" /\ m3u_lines = <<>>
    /\ fl = 0
    /\ videos_info = <<>>
    /\ returned = <<>>
    /\ fpc = "call"
    /\ playlist_data = <<>>
    /\ li = 0
    /\ local_files_map = <<>>
    /\ local_titles = {}
    /\ vi = 0
    /\ normalized_yt_title = <<>>
    /\ matched_local_path = NoPath
    /\ best_match_score = <<0, 1>>
    /\ overlap_score = <<0, 1>>
    /\ found_lenient = FALSE
    /\ m3u_content = <<>>
    /\ matched_count = 0
    /\ missing_songs = <<>>
    /\ files = <<>>
    /\ mpc = "fetch"
    /\ NormIdle
    /\ ScanIdle

\* playlist_data = get_youtube_playlist_info(youtube_playlist_url),
\* youtube_titles = ...: what the function returned is what the script goes
\* on with (a title of the two scripts that fetch titles is kept as a record
\* whose duration is never read)
FetchReturns ==
    /\ mpc = "fetch"
    /\ fpc = "returned"
    /\ playlist_data' =
          IF ReturnsRecords(script) THEN returned
          ELSE [i \in 1..Len(returned) |-> [title |-> returned[i], duration |-> 0]]
    /\ mpc' = "fetched"
    /\ UNCHANGED <<script, m3u_lines, m3u_open, fetchVars, li, local_files_map,
                   local_titles, vi, normalized_yt_title, matched_local_path,
                   best_match_score, overlap_score, found_lenient, m3u_content,
                   matched_count, missing_songs, files, normVars, scanVars>>

\* youtube_to_m3u.py: if playlist_data: generate_m3u_playlist(...)
GenerateCalled ==
    /\ mpc = "fetched"
    /\ script = YoutubeToM3u
    /\ playlist_data # <<>>
    /\ mpc' = "call"
    /\ UNCHANGED <<inputVars, li, local_files_map, local_titles, vi,
                   normalized_yt_title, matched_local_path, best_match_score,
                   overlap_score, found_lenient, m3u_content, matched_count,
                   missing_songs, files, normVars, scanVars>>

\* open raises FileNotFoundError: the parser returns its empty collection and
\* the script exits
LibraryNotFound ==
    /\ mpc = "fetched"
    /\ script \in Scripts
    /\ playlist_data # <<>>
    /\ m3u_open # "ok"
    /\ mpc' = "exit"
    /\ UNCHANGED <<inputVars, li, local_files_map, local_titles, vi,
                   normalized_yt_title, matched_local_path, best_match_score,
                   overlap_score, found_lenient, m3u_content, matched_count,
                   missing_songs, files, normVars, scanVars>>

NextRun ==
    \/ NextFetch \/ FetchReturns
    \/ GenerateCalled \/ NextSpeculative
    \/ LibraryNotFound \/ NextMatch

\* the script has come to its end: by an exit() or an else branch that
\* reports, or after the last write
RunEnded == mpc \in {"exit", "done"}

\* the interpreter goes on to the next statement until the script has ended,
\* and subprocess.run and open return or raise. This is WF_vars(NextRun)
\* written out, with RunEnded for ~ENABLED <<NextRun>>_vars: a step is
\* possible exactly when the run has not ended.
RunGoesOn == []<>RunEnded \/ []<><<NextRun>>_vars

SpecRun == InitRun /\ [][NextRun]_vars /\ RunGoesOn

---------------------------------------------------------------------------
(* Claims about the normalisers (SpecNorm) *)

\* the normaliser that ran in this state
Normalizer(t) ==
    IF fn = "clean" THEN clean_title_for_comparison(t)
                    ELSE normalize_text_for_comparison(t)

\* C1: normalising a canonical key again returns the same key, for
\* clean_title_for_comparison and for normalize_text_for_comparison.
C1_Idempotent == npc = "done" => Normalizer(key) = key

\* a call that changed its argument and left a key of several characters
C1_Witness == npc = "done" /\ key # text /\ Len(key) >= 3

KeyChars == LowerLetters \cup Digits \cup {" ", "-"}

\* C2: a canonical key holds no upper-case letter and no character outside
\* a-z, 0-9, space and hyphen.
C2_OnlyKeyChars == npc = "done" => \A i \in 1..Len(key) : key[i] \in KeyChars

\* the accented letters of the model, without their accent
Unaccent(s) == [i \in 1..Len(s) |-> IF s[i] = EAcute THEN "e" ELSE s[i]]

\* C3: a title and the same title without its accents get the same key from
\* clean_title_for_comparison.
C3_AccentsStripped ==
    npc = "done" /\ fn = "clean" =>
        key = clean_title_for_comparison(Unaccent(text))

\* t ends with suffix w, and something stands before it
HasSuffix(t, w) == Len(t) > Len(w) /\ SubSeq(t, Len(t) - Len(w) + 1, Len(t)) = w

\* t without its last n characters
DropLast(t, n) == SubSeq(t, 1, Len(t) - n)

\* lower-case alphanumeric words separated by single spaces
IsBaseTitle(t) ==
    /\ t # <<>>
    /\ \A i \in 1..Len(t) : t[i] \in LowerLetters \cup Digits \cup {" "}
    /\ t[1] # " " /\ t[Len(t)] # " "
    /\ \A i \in 1..(Len(t) - 1) : ~(t[i] = " " /\ t[i + 1] = " ")

AudioSuffix == OfficialAudio \o Mp3Ext
FileSuffix  == Mp3Tag \o Mp3Ext

\* C4: for a base title T written in any letter case, clean_title_for_comparison
\* maps "T (Official Audio).mp3" and "T(MP3_160K).mp3" to T in lower case.
C4_SuffixesRemoved ==
    npc = "done" /\ fn = "clean" =>
        \A w \in {AudioSuffix, FileSuffix} :
            HasSuffix(text, w) /\ IsBaseTitle(Lower(DropLast(text, Len(w))))
                => key = Lower(DropLast(text, Len(w)))

\* "Song Title(MP3_160K).mp3" has been cleaned
C4_Witness ==
    npc = "done" /\ fn = "clean" /\ text = SongTitle \o FileSuffix
        /\ key = Lower(SongTitle)

\* C5: normalize_text_for_comparison maps the file name "T(MP3_160K).mp3" of a
\* canonical key T to T, so that the exact lookup of the title T finds the file.
C5_FileNameGivesKey ==
    npc = "done" /\ fn = "normalize" /\ HasSuffix(text, FileSuffix) =>
        LET T == DropLast(text, Len(FileSuffix))
        IN  T # <<>> /\ normalize_text_for_comparison(T) = T
                => key = T /\ normalize_text_for_comparison(T) \in {key}

\* a non-empty run of letters and digits
IsWord(t) ==
    t # <<>> /\ \A i \in 1..Len(t) : LowerChar(t[i]) \in LowerLetters \cup Digits

\* C6: a noise phrase between two words u and v is replaced by a space: the key
\* of "u(Official Video)v" has u and v as separate tokens.
C6_NoiseBecomesSpace ==
    npc = "done" =>
        \A n \in 1..Len(text) :
            LET u == SubSeq(text, 1, n)
                v == SubSeq(text, n + Len(OfficialVideo) + 1, Len(text))
            IN  IsWord(u) /\ IsWord(v)
                  /\ SubSeq(text, n + 1, n + Len(OfficialVideo)) = OfficialVideo
                => Split(key) = <<Lower(u), Lower(v)>>

---------------------------------------------------------------------------
(* Claims about the positional score and the best-of-all scan (SpecScan) *)

\* the pair of strings findsimilarity was last called on
lastOriginal == youtube_playlist[oi]
lastModified == downloaded_music_list[mi - 1]

\* a comparison has just been made
Compared == spc = "for_modified" /\ mi > 1 /\ new_similarity # <<>>

\* the positions where both strings have a character and the characters are equal
EqualPositions(a, b) ==
    {i \in 1..Len(a) : i <= Len(b) /\ a[i] = b[i]}

Dist(a, b) == IF a >= b THEN a - b ELSE b - a

C9_NeverRaises == spc # ZeroDivisionError

\* the score of a query against a reference item: the equal positions over
\* the length of the query, in percent, rounded
ScoreOf(query, item) ==
    Round(100 * Cardinality(EqualPositions(query, item)), Len(query))

\* the maximum of the scores of a query over all reference items
MaxScore(query) ==
    CHOOSE s \in {ScoreOf(query, downloaded_music_list[i]) : i \in 1..Len(downloaded_music_list)} :
        \A i \in 1..Len(downloaded_music_list) : ScoreOf(query, downloaded_music_list[i]) <= s

\* the first reference item, in iteration order, that reaches the maximum
FirstMaximum(query) ==
    downloaded_music_list[
        CHOOSE i \in 1..Len(downloaded_music_list) :
            /\ ScoreOf(query, downloaded_music_list[i]) = MaxScore(query)
            /\ \A j \in 1..(i - 1) : ScoreOf(query, downloaded_music_list[j]) < MaxScore(query)]

Queries == {youtube_playlist[i] : i \in 1..Len(youtube_playlist)}

\* C18 as stated: after the scan the stored result of every query is the
\* maximum score over all reference items together with the first reference
\* item, in iteration order, that reaches it.
C18_MaximumAndItsSource ==
    spc = "done" /\ downloaded_music_list # <<>> =>
        \A query \in Queries :
            dictionary[query] = <<MaxScore(query), FirstMaximum(query)>>

\* C18 as amended: after the scan the stored score of every query is the
\* maximum over all reference items (0 when there is none); when it is above
\* 0 the stored item is the first reference item, in iteration order, that
\* reaches it (a later equal score never replaces it), and when it is 0 the
\* stored item is the empty string the entry starts with.
C18_FirstMaximumAboveZero ==
    spc = "done" =>
        \A query \in Queries :
            IF downloaded_music_list = <<>> THEN dictionary[query] = <<0, <<>>>>
            ELSE IF MaxScore(query) = 0 THEN dictionary[query] = <<0, <<>>>>
            ELSE dictionary[query] = <<MaxScore(query), FirstMaximum(query)>>

\* the scan is over for "ab" against "a" and "aaa", which both score 50: the
\* first is stored
C18_Witness ==
    /\ spc = "done"
    /\ youtube_playlist = << <<"a","b">> >>
    /\ downloaded_music_list = << <<"a">>, <<"a","a","a">> >>
    /\ dictionary[<<"a","b">>] = <<50, <<"a">>>>

---------------------------------------------------------------------------
(* Claims about the matcher scripts (SpecMatch) *)

\* a title has been handled by the loop of the script
Handled == mpc = "match" /\ vi > 1

\* the title the loop handled last
lastTitle == playlist_data[vi - 1].title

\* the keys of the reference collection of the script
ReferenceKeys ==
    IF script = Alternative THEN MapKeys(local_files_map) ELSE local_titles

\* punctuation marks, those of ASCII and the dash outside it
PunctuationMarks == PunctuationChars \cup {"-", EmDash}

\* the title handled last counts as unmatched
Unmatched ==
    IF script = Alternative THEN matched_local_path = NoPath
    ELSE missing_songs # <<>> /\ missing_songs[Len(missing_songs)] = lastTitle

\* C7: an empty key is never a match: a title that is empty or made of
\* punctuation only has the empty key, no reference is stored under the empty
\* key, and a title with the empty key is unmatched in every matcher.
C7_EmptyKeyNeverMatches ==
    /\ <<>> \notin ReferenceKeys
    /\ Handled =>
        /\ (\A i \in 1..Len(lastTitle) : lastTitle[i] \in PunctuationMarks)
               => normalized_yt_title = <<>>
        /\ normalized_yt_title = <<>> => Unmatched

\* the lenient fallback has handled the last title
LenientRan ==
    /\ Handled
    /\ script \in {Alternative, HighChance}
    /\ normalized_yt_title \notin ReferenceKeys

\* the lenient fallback has accepted the last title
Accepted ==
    IF script = Alternative THEN matched_local_path # NoPath ELSE found_lenient

\* the unique whitespace-delimited tokens of a key: the runs without a space
\* that no character other than a space precedes or follows
Tokens(k) ==
    { SubSeq(k, be[1], be[2]) :
        be \in { x \in (1..Len(k)) \X (1..Len(k)) :
                   /\ x[1] <= x[2]
                   /\ \A i \in x[1]..x[2] : ~IsSpace(k[i])
                   /\ x[1] = 1 \/ IsSpace(k[x[1] - 1])
                   /\ x[2] = Len(k) \/ IsSpace(k[x[2] + 1]) } }

TitlesUpTo(n) == [i \in 1..n |-> playlist_data[i].title]

\* a is b with some elements left out, the order kept
IsSubsequence(a, b) ==
    \E f \in [1..Len(a) -> 1..Len(b)] :
        /\ \A i \in 1..Len(a) : a[i] = b[f[i]]
        /\ \A i \in 1..(Len(a) - 1) : f[i] < f[i + 1]

\* C11: in the comparison loops of the two missing-songs scripts every title
\* handled so far is either counted in matched_count or appended to the
\* missing list, never both and never neither: the two add up to the number
\* of titles handled, and the missing list holds original titles in input
\* order.
C11_FoundOrMissing ==
    script \in {HighChance, FindMissing} /\ mpc \in {"match", "done"} =>
        /\ matched_count + Len(missing_songs) = vi - 1
        /\ IsSubsequence(missing_songs, TitlesUpTo(vi - 1))

---------------------------------------------------------------------------
(* Claims about an empty reference collection (SpecEmptyReference) *)

\* the entry of a query no reference was scored for: [0, ""]
NoReference == <<0, <<>>>>

\* C12: with an empty reference collection every query is unmatched and
\* nothing is raised: generate_m3u_playlist_with_matching with an empty map
\* emits no entry, whatever the records, and writes the header alone; the
\* best-of-all scan with an empty downloaded list never raises and leaves
\* every query it has begun, in the end every query, with score 0 and no
\* reference.
C12_EmptyReference ==
    /\ script = Alternative /\ mpc \in {"match", "done"} /\ local_files_map = <<>> =>
          /\ m3u_content = <<ExtM3u>>
          /\ matched_count = 0
          /\ matched_local_path = NoPath
          /\ mpc = "done" => files = (output_file :> <<ExtM3u>>)
    /\ spc # "idle" /\ downloaded_music_list = <<>> =>
          /\ spc # ZeroDivisionError
          /\ \A i \in 1..Len(youtube_playlist) :
                 i < oi => /\ youtube_playlist[i] \in DOMAIN dictionary
                           /\ dictionary[youtube_playlist[i]] = NoReference
          /\ \A k \in DOMAIN dictionary : dictionary[k] = NoReference

\* the function has handled two records with an empty map and has written
\* the header alone
C12_Witness ==
    /\ script = Alternative /\ mpc = "done"
    /\ local_files_map = <<>>
    /\ Len(playlist_data) = 2
    /\ files = (output_file :> <<ExtM3u>>)

---------------------------------------------------------------------------
(* Claims about the file name and the display title (SpecTitle) *)

\* the characters the claim lists
ForbiddenInPath == {"\\", "/", ":", "*", "?", "\"", "<", ">", "|", "'", "&"}

\* C13: the sanitized title has none of the characters \ / : * ? " < > | ' &,
\* no two underscores in a row, does not end with an underscore or a space
\* unless it is the one character "_", and starts with an underscore exactly
\* when the title does.
C13_SanitizedName ==
    npc = "done" /\ fn = "sanitize" =>
        /\ \A i \in 1..Len(key) : key[i] \notin ForbiddenInPath
        /\ \A i \in 1..(Len(key) - 1) : ~(key[i] = "_" /\ key[i + 1] = "_")
        /\ key # <<>> /\ key # <<"_">> => key[Len(key)] \notin {"_", " "}
        /\ (key # <<>> /\ key[1] = "_") <=> (text # <<>> /\ text[1] = "_")

\* a title that starts with an underscore, has an invalid character and ends
\* with a space has been sanitized
C13_Witness ==
    /\ npc = "done" /\ fn = "sanitize"
    /\ Len(text) = 3 /\ text[1] = "_" /\ text[2] \in ForbiddenInPath /\ text[3] = " "
    /\ key = <<"_">>

\* the end of a noise phrase of clean_title_for_comparison that starts at
\* index i with its bracket (0: none), the spaces around it not counted
PhraseEnd(s, i) == OfficialWord("clean", s, OneOf(s, i, {"(", "["}))

RECURSIVE WithoutPhrasesFrom(_, _)
\* s from index i on with the noise phrases left out and every other
\* character kept
WithoutPhrasesFrom(s, i) ==
    IF i > Len(s) THEN <<>>
    ELSE IF PhraseEnd(s, i) # 0 THEN WithoutPhrasesFrom(s, PhraseEnd(s, i))
    ELSE <<s[i]>> \o WithoutPhrasesFrom(s, i + 1)

\* C14: clean_display_title removes every bracketed phrase the noise rule of
\* clean_title_for_comparison removes and leaves every other character of
\* the title unchanged.
C14_DisplayKeepsTheRest ==
    npc = "done" /\ fn = "display" => key = WithoutPhrasesFrom(text, 1)

---------------------------------------------------------------------------
(* Claims about the playlist of speculative paths (SpecSpeculative) *)

\* the text of the block of the i-th record
ExpectedInf(i) ==
    ExtInf \o DecimalDigits(playlist_data[i].duration) \o <<",">>
        \o clean_display_title(playlist_data[i].title)

ExpectedPath(i) ==
    RELATIVE_ANDROID_BASE_PATH \o sanitize_filename_for_path(playlist_data[i].title)
        \o Mp3Tag \o Mp3Ext

\* C15: generate_m3u_playlist writes "#EXTM3U" first and then, for the i-th
\* record in input order, one block: "#EXTINF:<duration>,<display title>",
\* then the path base + sanitize(title) + "(MP3_160K).mp3" (and the empty
\* line that ends a block); there are as many blocks as records, duplicates
\* included, and the text written is that list of lines, a function of the
\* records alone.
C15_SpeculativeBlocks ==
    script = YoutubeToM3u /\ mpc \in {"match", "done"} =>
        /\ m3u_content[1] = ExtM3u
        /\ Len(m3u_content) = 1 + 3 * (vi - 1)
        /\ \A i \in 1..(vi - 1) :
              /\ m3u_content[3 * i - 1] = ExpectedInf(i)
              /\ m3u_content[3 * i] = ExpectedPath(i)
              /\ m3u_content[3 * i + 1] = <<>>
        /\ mpc = "done" =>
              /\ vi - 1 = Len(playlist_data)
              /\ files = (chill_playlist :> m3u_content)

\* the playlist of the same record twice is written: two blocks, alike, whose
\* display title is not the title
C15_Witness ==
    /\ script = YoutubeToM3u /\ mpc = "done"
    /\ Len(playlist_data) = 2
    /\ playlist_data[1] = playlist_data[2]
    /\ Len(files[chill_playlist]) = 7
    /\ files[chill_playlist][2] = files[chill_playlist][5]
    /\ files[chill_playlist][2] # ExtInf \o DecimalDigits(playlist_data[1].duration)
                                     \o <<",">> \o playlist_data[1].title

---------------------------------------------------------------------------
(* Claims about generate_m3u_playlist_with_matching (SpecGenerate) *)

\* the paths stored in the map
MapPaths == {local_files_map[i][2] : i \in 1..Len(local_files_map)}

\* the loop of generate_m3u_playlist_with_matching handles a record
HandlesRecord == script = Alternative /\ mpc = "match" /\ vi' = vi + 1

\* C16: generate_m3u_playlist_with_matching emits one entry for a matched
\* record, after the entries of the records before it: "#EXTINF:" with the
\* duration and the original title, then the path stored for the matched
\* reference; an unmatched record adds no line; the matched count is the
\* number of entries, and the entries are what is written.
C16_MatchedOnly ==
    [][ /\ HandlesRecord /\ matched_local_path' = NoPath =>
              m3u_content' = m3u_content /\ matched_count' = matched_count
        /\ HandlesRecord /\ matched_local_path' # NoPath =>
              /\ m3u_content' = m3u_content \o
                    << ExtInf \o DecimalDigits(video.duration) \o <<",">> \o yt_title,
                       matched_local_path', <<>> >>
              /\ matched_local_path' \in MapPaths
              /\ normalized_yt_title' \in MapKeys(local_files_map) =>
                    \E i \in 1..Len(local_files_map) :
                        local_files_map[i] = <<normalized_yt_title', matched_local_path'>>
              /\ matched_count' = matched_count + 1
        /\ script = Alternative /\ mpc' \in {"match", "done"} =>
              Len(m3u_content') = 1 + 3 * matched_count'
        /\ script = Alternative /\ mpc' = "done" =>
              files' = (output_file :> m3u_content')
      ]_vars

\* two records are handled, the first is matched and the second is not: one
\* entry, with the title and a stored path
C16_Witness ==
    /\ script = Alternative /\ mpc = "match"
    /\ vi = 3
    /\ matched_count = 1
    /\ matched_local_path = NoPath
    /\ Len(m3u_content) = 4
    /\ m3u_content[2] = ExtInf \o DecimalDigits(playlist_data[1].duration) \o <<",">>
                            \o playlist_data[1].title
    /\ m3u_content[3] \in MapPaths

---------------------------------------------------------------------------
(* Claims about the fetch (SpecFetch) *)

\* a line that holds an object with a title and, where records are returned,
\* a duration that is a number
WellFormed(s, ln) ==
    /\ JsonLoads(ln).type = "dict"
    /\ "title" \in DOMAIN JsonLoads(ln).items
    /\ JsonLoads(ln).items.title.type = "str"
    /\ JsonLoads(ln).items.title.value # <<>>
    /\ ReturnsRecords(s) =>
          /\ "duration" \in DOMAIN JsonLoads(ln).items
          /\ JsonLoads(ln).items.duration.type \in {"int", "float"}

RECURSIVE WellFormedRecords(_, _)
WellFormedRecords(s, lines) ==
    IF lines = <<>> THEN <<>>
    ELSE (IF WellFormed(s, Head(lines)) THEN <<Fetched(s, JsonLoads(Head(lines)))>> ELSE <<>>)
         \o WellFormedRecords(s, Tail(lines))

\* C17: one malformed line never aborts the batch: when yt-dlp ran, the
\* function returns the records of all the well-formed lines of the output,
\* in the order of the lines, whatever the other lines hold (invalid JSON,
\* JSON that is not an object, a duration that is not a number, no title or
\* no duration).
C17_BadLineSkippedAlone ==
    fpc = "returned" /\ process.raised = "ok" =>
        returned = WellFormedRecords(script, process.stdout)

---------------------------------------------------------------------------
(* Claims about the exact lookup and the lenient scan (SpecGenerate) *)

\* the number of the tokens of a query key that a reference key has
Shared(query, reference) == Cardinality(Tokens(query) \cap Tokens(reference))

\* the score of a reference key is 0.7 or more
Reaches70(query, reference) ==
    /\ Tokens(query) # {}
    /\ 10 * Shared(query, reference) >= 7 * Cardinality(Tokens(query))

\* the entries of the map that score 0.7 or more
Candidates(query) ==
    {i \in 1..Len(local_files_map) : Reaches70(query, local_files_map[i][1])}

\* the first entry, in insertion order, that attains the highest score among
\* the candidates
FirstBest(query) ==
    CHOOSE i \in Candidates(query) :
        /\ \A j \in Candidates(query) :
              Shared(query, local_files_map[j][1]) <= Shared(query, local_files_map[i][1])
        /\ \A j \in Candidates(query) :
              j < i => Shared(query, local_files_map[j][1]) < Shared(query, local_files_map[i][1])

\* C19: in generate_m3u_playlist_with_matching the exact lookup has priority:
\* a query whose key is a key of the map is matched to the path stored under
\* that key whatever the overlap scores are; on a miss the lenient scan
\* selects the path of the first entry, in insertion order, that attains the
\* highest score among the entries scoring 0.7 or more, and the query is
\* unmatched when no entry reaches 0.7.  The map holds one path for a key, the
\* first of the file.
C19_ExactThenFirstBest ==
    /\ \A i, j \in 1..Len(local_files_map) :
          local_files_map[i][1] = local_files_map[j][1] => i = j
    /\ Handled =>
          /\ normalized_yt_title = normalize_text_for_comparison(lastTitle)
          /\ IF \E i \in 1..Len(local_files_map) : local_files_map[i][1] = normalized_yt_title
             THEN \E i \in 1..Len(local_files_map) :
                     local_files_map[i] = <<normalized_yt_title, matched_local_path>>
             ELSE IF Candidates(normalized_yt_title) # {}
                  THEN matched_local_path = local_files_map[FirstBest(normalized_yt_title)][2]
                  ELSE matched_local_path = NoPath

\* "a b c d" misses the exact lookup; "a b c" and "c b a" both score 3/4 and
\* the later "a b c d e" scores 4/4: its path is the one selected
C19_Witness ==
    /\ Handled
    /\ lastTitle = <<"a"," ","b"," ","c"," ","d">>
    /\ Len(local_files_map) = 3
    /\ local_files_map[1][1] = <<"a"," ","b"," ","c">>
    /\ local_files_map[2][1] = <<"c"," ","b"," ","a">>
    /\ matched_local_path = local_files_map[3][2]
    /\ best_match_score = <<4, 4>>

---------------------------------------------------------------------------
(* Claims about the parsers of the library file (SpecMatch) *)

\* the lines of the file that do not start with "#"
PathLines ==
    {m3u_lines[j] : j \in {k \in 1..Len(m3u_lines) : ~StartsWith(m3u_lines[k], <<"#">>)}}

\* C20: only the lines that do not start with "#" are taken as paths: every
\* path stored in the map of parse_musicolet_m3u_for_local_files is such a
\* line of the file (its separators normalised) and every key of the map or
\* of the set of titles is the key of the file name of such a line; the
\* header, the #EXTINF lines and any other "#" line never create an entry.
C20_OnlyPathLines ==
    /\ \A i \in 1..Len(local_files_map) :
          \E ln \in PathLines :
              local_files_map[i] = <<Key(script, Basename(ReplaceBackslash(ln))), ReplaceBackslash(ln)>>
    /\ \A k \in local_titles :
          \E ln \in PathLines : k = Key(script, Basename(ln))

---------------------------------------------------------------------------
(* Claims about a whole run (SpecRun) *)

\* the fetch returned at least one record
FetchGave == fpc = "returned" /\ returned # <<>>

\* the library file was there and the parser returned at least one entry
LibraryGave == m3u_open = "ok" /\ ~NoLocalEntries

\* the script needs a local library
NeedsLibrary == script \in {Alternative, HighChance, FindMissing}

\* the matching step has begun, or a file has been written
MatchingBegun == vi > 0 \/ m3u_content # <<>> \/ files # <<>>

\* C21: in every script's run a failed or empty fetch, and a missing or empty
\* local library file where a library is needed, end the run before the
\* matching step: the matching never begins and no playlist file and no
\* missing-items file is written unless the fetch returned at least one
\* record and the library yielded at least one entry, a run that ends for one
\* of these reasons has written nothing, and every run terminates.
C21_RunEndsBeforeMatching ==
    /\ [](/\ MatchingBegun => FetchGave /\ (NeedsLibrary => LibraryGave)
          /\ mpc = "exit" =>
                /\ ~MatchingBegun
                /\ ~FetchGave \/ (NeedsLibrary /\ ~LibraryGave)
          /\ mpc = "done" => FetchGave /\ (NeedsLibrary => LibraryGave))
    /\ <>RunEnded

\* the fetch returned records and the library file is not there: the run has
\* exited with nothing matched and nothing written
C21_Witness ==
    /\ mpc = "exit"
    /\ FetchGave
    /\ NeedsLibrary
    /\ m3u_open = "FileNotFoundError"
    /\ ~MatchingBegun

====
